---- MODULE Spec2Model ----
(***************************************************************************)
(* A model of the incremental SHA-0 hasher of src/src/lib.rs.              *)
(*                                                                         *)
(* Number representation.  TLC integers are 32-bit signed, so the code's   *)
(* u32 words are carried as pairs <<hi, lo>> of 16-bit halves (the word    *)
(* is hi * 2^16 + lo) and the u64 bit-length counter as four 16-bit limbs  *)
(* <<l3, l2, l1, l0>>, most significant first.  Every operation on them    *)
(* is done at the width of the code: additions carry from limb to limb and *)
(* drop (or report) the carry out of the top limb.                         *)
(***************************************************************************)
EXTENDS Integers, Sequences, FiniteSets, TLC

VARIABLES
    h,        \* Sha0.h: the five state words
    data,     \* Sha0.data: the pending bytes
    length,   \* Sha0.length: the u64 bit-length counter
    pc,       \* "open" (created, updates allowed), "done" (finalize returned),
              \* "panicked" (an operation aborted)
    digest,   \* the String finalize returned, as a sequence of characters
    msg,      \* history: every byte passed to update since new(), in order
    splits,   \* history: the lengths of the update calls, in order
    calls,    \* history: one record per process_block call
    padded    \* history: the buffer as pad() left it

vars == <<h, data, length, pc, digest, msg, splits, calls, padded>>

(***************************************************************************)
(* Bounds of the exploration.                                              *)
(***************************************************************************)
MaxUpdates == 2      \* update calls per hasher
MaxTotal == 130      \* bytes fed to one hasher

(***************************************************************************)
(* Fixed-width arithmetic.                                                 *)
(***************************************************************************)
Half == 2 ^ 16                   \* the limb base
Pow2(n) == 2 ^ n

\* the bitwise operations on naturals, bit by bit
RECURSIVE and_bits(_, _)
and_bits(x, y) ==
    IF x = 0 \/ y = 0 THEN 0
    ELSE (x % 2) * (y % 2) + 2 * and_bits(x \div 2, y \div 2)

RECURSIVE or_bits(_, _)
or_bits(x, y) ==
    IF x = 0 THEN y
    ELSE IF y = 0 THEN x
    ELSE (IF x % 2 = 1 \/ y % 2 = 1 THEN 1 ELSE 0) + 2 * or_bits(x \div 2, y \div 2)

RECURSIVE xor_bits(_, _)
xor_bits(x, y) ==
    IF x = 0 THEN y
    ELSE IF y = 0 THEN x
    ELSE ((x + y) % 2) + 2 * xor_bits(x \div 2, y \div 2)

\* the same operations tabulated on 4-bit digits
And4 == [x \in 0..15 |-> [y \in 0..15 |-> and_bits(x, y)]]
Or4 == [x \in 0..15 |-> [y \in 0..15 |-> or_bits(x, y)]]
Xor4 == [x \in 0..15 |-> [y \in 0..15 |-> xor_bits(x, y)]]

\* a 16-bit operation, digit by digit
op16(T, x, y) ==
    T[x \div 4096][y \div 4096] * 4096
    + T[(x \div 256) % 16][(y \div 256) % 16] * 256
    + T[(x \div 16) % 16][(y \div 16) % 16] * 16
    + T[x % 16][y % 16]
and16(x, y) == op16(And4, x, y)
or16(x, y) == op16(Or4, x, y)
xor16(x, y) == op16(Xor4, x, y)

\* u32 & u32, u32 | u32, u32 ^ u32, !u32
BitAnd(x, y) == <<and16(x[1], y[1]), and16(x[2], y[2])>>
BitOr(x, y) == <<or16(x[1], y[1]), or16(x[2], y[2])>>
BitXor(x, y) == <<xor16(x[1], y[1]), xor16(x[2], y[2])>>
BitNot(x) == <<Half - 1 - x[1], Half - 1 - x[2]>>

\* u32::wrapping_add
wrapping_add(x, y) ==
    LET lo == x[2] + y[2]
        hi == x[1] + y[1] + (lo \div Half)
    IN  <<hi % Half, lo % Half>>

\* u32::rotate_left(n), 0 < n < 32
rotate_left(x, n) ==
    LET s == IF n >= 16 THEN <<x[2], x[1]>> ELSE x
        k == n % 16
    IN  IF k = 0 THEN s
        ELSE <<(s[1] % Pow2(16 - k)) * Pow2(k) + (s[2] \div Pow2(16 - k)),
               (s[2] % Pow2(16 - k)) * Pow2(k) + (s[1] \div Pow2(16 - k))>>

\* u32::from_be_bytes on a 4-byte chunk
from_be_bytes(chunk) == <<chunk[1] * 256 + chunk[2], chunk[3] * 256 + chunk[4]>>

(***************************************************************************)
(* Sha0::new                                                               *)
(***************************************************************************)
H0 == << <<26437, 8961>>,      \* 0x67452301
         <<61389, 43913>>,     \* 0xefcdab89
         <<39098, 56574>>,     \* 0x98badcfe
         <<4146, 21622>>,      \* 0x10325476
         <<50130, 57840>> >>   \* 0xc3d2e1f0

(***************************************************************************)
(* Sha0::process_block                                                     *)
(***************************************************************************)
k1 == <<23170, 31129>>     \* 0x5a827999
k2 == <<28377, 60321>>     \* 0x6ed9eba1
k3 == <<36635, 48348>>     \* 0x8f1bbcdc
k4 == <<51810, 49622>>     \* 0xca62c1d6

\* block.chunks(4).enumerate().take(16): w[0..16) (w is 1-based here)
schedule_load(block) ==
    [i \in 1..16 |-> from_be_bytes(SubSeq(block, 4 * i - 3, 4 * i))]

\* (variant: the SHA-1 schedule, which rotates the new word left by one)
schedule_word_rotated(w, t) ==
    rotate_left(BitXor(BitXor(BitXor(w[t - 3 + 1], w[t - 8 + 1]), w[t - 14 + 1]),
                       w[t - 16 + 1]), 1)

\* one step of `for t in 16..80`: the new word w[t], t = Len(w)
schedule_word(w, t) ==
    BitXor(BitXor(BitXor(w[t - 3 + 1], w[t - 8 + 1]), w[t - 14 + 1]), w[t - 16 + 1])

\* the iterations t < stop of `for t in 16..80`
RECURSIVE schedule_extend(_, _)
schedule_extend(w, stop) ==
    IF Len(w) >= stop THEN w
    ELSE schedule_extend(Append(w, schedule_word(w, Len(w))), stop)

\* the match on t: (f, k)
round_fk(t, b, c, d) ==
    IF t <= 19 THEN <<BitOr(BitAnd(b, c), BitAnd(BitNot(b), d)), k1>>
    ELSE IF t <= 39 THEN <<BitXor(BitXor(b, c), d), k2>>
    ELSE IF t <= 59 THEN <<BitOr(BitOr(BitAnd(b, c), BitAnd(b, d)), BitAnd(c, d)), k3>>
    ELSE <<BitXor(BitXor(b, c), d), k4>>

\* one iteration of `for t in 0..80` on r = <<a, b, c, d, e>>
round_step(r, w, t) ==
    LET fk == round_fk(t, r[2], r[3], r[4])
        temp == wrapping_add(wrapping_add(wrapping_add(wrapping_add(
                    rotate_left(r[1], 5), fk[1]), r[5]), fk[2]), w[t + 1])
    IN  <<temp, r[1], rotate_left(r[2], 30), r[3], r[4]>>

\* `for t in 0..80`: s = <<r, t>>, the registers before round t
RECURSIVE main_loop(_, _)
main_loop(s, w) ==
    IF s[2] >= 80 THEN s[1]
    ELSE main_loop(<<round_step(s[1], w, s[2]), s[2] + 1>>, w)

\* (variant: the registers replace the words, no feed-forward)
process_block_no_feed_forward(hs, block) ==
    main_loop(<<hs, 0>>, schedule_extend(schedule_extend(schedule_load(block), 48), 80))

\* the state words after process_block(block), hs the words before (the
\* schedule loop is run in two stretches, t < 48 and t < 80, which bounds the
\* depth of its evaluation and changes nothing it computes)
process_block(hs, block) ==
    LET w == schedule_extend(schedule_extend(schedule_load(block), 48), 80)
        r == main_loop(<<hs, 0>>, w)
    IN  <<wrapping_add(hs[1], r[1]), wrapping_add(hs[2], r[2]),
          wrapping_add(hs[3], r[3]), wrapping_add(hs[4], r[4]),
          wrapping_add(hs[5], r[5])>>

(***************************************************************************)
(* The u64 bit-length counter, four 16-bit limbs, most significant first.  *)
(* Operations return [val, overflow]: the wrapped result and whether the   *)
(* exact result left the u64 range.                                        *)
(***************************************************************************)
\* usize as u64, for n < 2^31
as_u64(n) == <<0, 0, n \div Half, n % Half>>

\* u64 * small factor
u64_mul(x, f) ==
    LET p0 == x[4] * f
        p1 == x[3] * f + (p0 \div Half)
        p2 == x[2] * f + (p1 \div Half)
        p3 == x[1] * f + (p2 \div Half)
    IN  [val |-> <<p3 % Half, p2 % Half, p1 % Half, p0 % Half>>,
         overflow |-> p3 >= Half]

\* u64 + u64
u64_add(x, y) ==
    LET s0 == x[4] + y[4]
        s1 == x[3] + y[3] + (s0 \div Half)
        s2 == x[2] + y[2] + (s1 \div Half)
        s3 == x[1] + y[1] + (s2 \div Half)
    IN  [val |-> <<s3 % Half, s2 % Half, s1 % Half, s0 % Half>>,
         overflow |-> s3 >= Half]

\* (variant: the counter counts bytes, not bits)
length_add_bytes(len, n) == u64_add(len, as_u64(n))

\* self.length += (input.len() as u64) * 8
length_add(len, n) ==
    LET bits == u64_mul(as_u64(n), 8)
        sum == u64_add(len, bits.val)
    IN  [val |-> sum.val, overflow |-> bits.overflow \/ sum.overflow]

\* u64::to_be_bytes
to_be_bytes(x) ==
    <<x[1] \div 256, x[1] % 256, x[2] \div 256, x[2] % 256,
      x[3] \div 256, x[3] % 256, x[4] \div 256, x[4] % 256>>

Min(a, b) == IF a <= b THEN a ELSE b

\* (variant: the input replaces the pending bytes)
extend_from_slice_replace(d, input) == input

\* Vec::extend_from_slice
extend_from_slice(d, input) == d \o input

(***************************************************************************)
(* The drain loops of update and finalize.  A loop state is                *)
(* [h, data, calls, ok]: the words, the buffer, the process_block calls    *)
(* made so far and whether every assertion held.                           *)
(***************************************************************************)
\* (variant: the block is cut one byte short, self.data[..63])
drain_block_short(s) ==
    LET block == SubSeq(s.data, 1, Min(63, Len(s.data)))
    IN  [s EXCEPT !.ok = FALSE,
                  !.calls = Append(@, [pre |-> s.h, block |-> block, post |-> s.h])]

\* self.data[..64].to_vec(), then process_block (with its assert_eq!), then
\* self.data.drain(..64)
drain_block(s) ==
    LET block == SubSeq(s.data, 1, Min(64, Len(s.data)))
    IN  IF Len(block) # 64
        THEN [s EXCEPT !.ok = FALSE,
                       !.calls = Append(@, [pre |-> s.h, block |-> block, post |-> s.h])]
        ELSE LET post == process_block(s.h, block)
             IN  [h |-> post,
                  data |-> SubSeq(s.data, 65, Len(s.data)),
                  calls |-> Append(s.calls, [pre |-> s.h, block |-> block, post |-> post]),
                  ok |-> TRUE]

\* (variant: the loop stops at exactly 64 pending bytes, `> 64`)
RECURSIVE update_loop_strict(_)
update_loop_strict(s) ==
    IF s.ok /\ Len(s.data) > 64 THEN update_loop_strict(drain_block(s)) ELSE s

\* update: while self.data.len() >= 64 { ... }
RECURSIVE update_loop(_)
update_loop(s) ==
    IF s.ok /\ Len(s.data) >= 64 THEN update_loop(drain_block(s)) ELSE s

\* (variant: one block is drained, `if` for `while`)
finalize_loop_once(s) ==
    IF s.ok /\ Len(s.data) >= 64 THEN drain_block(s) ELSE s

\* finalize: while self.data.len() >= 64 { ... }
RECURSIVE finalize_loop(_)
finalize_loop(s) ==
    IF s.ok /\ Len(s.data) >= 64 THEN finalize_loop(drain_block(s)) ELSE s

(***************************************************************************)
(* Sha0::pad                                                               *)
(***************************************************************************)
\* (variant: a one-shot test, `while self.data.len() < 56`)
RECURSIVE pad_zeros_below(_)
pad_zeros_below(d) ==
    IF Len(d) < 56 THEN pad_zeros_below(Append(d, 0)) ELSE d

\* while (self.data.len() % 64) != 56 { self.data.push(0x00) }
RECURSIVE pad_zeros(_)
pad_zeros(d) ==
    IF (Len(d) % 64) # 56 THEN pad_zeros(Append(d, 0)) ELSE d

pad(d, len) == pad_zeros(Append(d, 128)) \o to_be_bytes(len)

(***************************************************************************)
(* The digest string: format!("{:08x}", word) for each word, collected.    *)
(***************************************************************************)
HexDigit == <<"0", "1", "2", "3", "4", "5", "6", "7",
              "8", "9", "a", "b", "c", "d", "e", "f">>

\* the hexadecimal digits of a 16-bit value, most significant first, no
\* leading zeros (none at all for 0)
RECURSIVE hex16(_)
hex16(n) == IF n = 0 THEN <<>> ELSE Append(hex16(n \div 16), HexDigit[(n % 16) + 1])

\* exactly four digits of a 16-bit value
hex16_full(n) ==
    <<HexDigit[(n \div 4096) + 1], HexDigit[((n \div 256) % 16) + 1],
      HexDigit[((n \div 16) % 16) + 1], HexDigit[(n % 16) + 1]>>

\* {:x}: the digits of the word, most significant first, no leading zeros
lower_hex(word) ==
    IF word[1] # 0 THEN hex16(word[1]) \o hex16_full(word[2])
    ELSE IF word[2] # 0 THEN hex16(word[2])
    ELSE <<"0">>

\* (variant: no fill, {:x})
format_x(word) == lower_hex(word)

\* {:08x}: lower_hex, filled on the left with '0' to a width of 8
format_08x(word) ==
    LET digits == lower_hex(word)
    IN  [i \in 1..(8 - Min(8, Len(digits))) |-> "0"] \o digits

\* self.h.iter().map(|word| format!("{:08x}", word)).collect()
RECURSIVE collect(_)
collect(hs) ==
    IF hs = <<>> THEN <<>> ELSE format_08x(Head(hs)) \o collect(Tail(hs))

(***************************************************************************)
(* The inputs of update.                                                   *)
(***************************************************************************)
Abc == <<97, 98, 99>>
Fox == <<84, 104, 101, 32, 113, 117, 105, 99, 107, 32, 98, 114, 111, 119, 110,
         32, 102, 111, 120, 32, 106, 117, 109, 112, 115, 32, 111, 118, 101,
         114, 32, 116, 104, 101, 32, 108, 97, 122, 121, 32, 100, 111, 103>>
Pattern(n) == [i \in 1..n |-> (i * 37 + 201) % 256]
PatternLens == {55, 56, 63, 64, 65}
Inputs == {<<>>, Abc, Fox} \cup {Pattern(n) : n \in PatternLens}

Init ==
    /\ h = H0
    /\ data = <<>>
    /\ length = <<0, 0, 0, 0>>
    /\ pc = "open"
    /\ digest = <<>>
    /\ msg = <<>>
    /\ splits = <<>>
    /\ calls = <<>>
    /\ padded = <<>>

\* pub fn update(&mut self, input: &[u8]).  The `+=` on the u64 counter is
\* an overflow-checked addition in a build with overflow checks (the debug
\* profile) and a wrapping one without (the release profile): when the sum
\* leaves the u64 range either outcome is possible.
Update(input) ==
    /\ pc = "open"
    /\ Len(splits) < MaxUpdates
    /\ Len(msg) + Len(input) <= MaxTotal
    /\ LET sum == length_add(length, Len(input))
           s == update_loop([h |-> h, data |-> extend_from_slice(data, input),
                             calls |-> calls, ok |-> TRUE])
       IN  \E overflow_checks \in (IF sum.overflow THEN BOOLEAN ELSE {FALSE}) :
              IF sum.overflow /\ overflow_checks
              THEN \* the addition panics before anything is written
                   /\ pc' = "panicked"
                   /\ UNCHANGED <<h, data, length, calls>>
              ELSE /\ length' = sum.val
                   /\ h' = s.h
                   /\ data' = s.data
                   /\ calls' = s.calls
                   /\ pc' = IF s.ok THEN "open" ELSE "panicked"
    /\ msg' = msg \o input
    /\ splits' = Append(splits, Len(input))
    /\ UNCHANGED <<digest, padded>>

\* pub fn finalize(mut self) -> String
Finalize ==
    /\ pc = "open"
    /\ LET p == pad(data, length)
           s == finalize_loop([h |-> h, data |-> p, calls |-> calls, ok |-> TRUE])
       IN  /\ padded' = p
           /\ h' = s.h
           /\ data' = s.data
           /\ calls' = s.calls
           /\ pc' = IF s.ok THEN "done" ELSE "panicked"
           /\ digest' = IF s.ok THEN collect(s.h) ELSE digest
    /\ UNCHANGED <<length, msg, splits>>

Next ==
    \/ \E input \in Inputs : Update(input)
    \/ Finalize

Spec == Init /\ [][Next]_vars

(***************************************************************************)
(* A hasher late in a very long input: 2^61 - 128 bytes have been fed in   *)
(* whole blocks, so the buffer is empty and the counter stands at          *)
(* 2^64 - 1024.  The words reached after that many blocks are not computed *)
(* here (H0 stands in for them) and msg, splits and calls record only what *)
(* happens from this point on; this specification is for the properties of *)
(* the counter alone.                                                      *)
(***************************************************************************)
LateLength == <<65535, 65535, 65535, 64512>>

InitLate ==
    /\ h = H0
    /\ data = <<>>
    /\ length = LateLength
    /\ pc = "open"
    /\ digest = <<>>
    /\ msg = <<>>
    /\ splits = <<>>
    /\ calls = <<>>
    /\ padded = <<>>

SpecLate == InitLate /\ [][Next]_vars

(***************************************************************************)
(* Properties.                                                             *)
(***************************************************************************)
\* the digest of new(); update(M); finalize()
one_shot(M) ==
    LET u == update_loop([h |-> H0, data |-> extend_from_slice(<<>>, M),
                          calls |-> <<>>, ok |-> TRUE])
        f == finalize_loop([h |-> u.h,
                            data |-> pad(u.data, length_add(<<0, 0, 0, 0>>, Len(M)).val),
                            calls |-> <<>>, ok |-> TRUE])
    IN  collect(f.h)

\* C1: however the message was split into update calls (empty chunks and
\* mid-block splits included), finalize returns the digest that a single
\* update with the whole message gives.
C1_IncrementalEquivalence ==
    pc = "done" => digest = one_shot(msg)

\* two chunks, the split inside a block, the message longer than a block
C1_Witness ==
    /\ pc = "done"
    /\ Len(splits) >= 2
    /\ splits[1] % 64 # 0
    /\ Len(msg) > 64

RECURSIVE Join(_)
Join(cs) == IF cs = <<>> THEN "" ELSE Head(cs) \o Join(Tail(cs))

\* C2: the digests of "", "abc" and "The quick brown fox jumps over the
\* lazy dog" are the three known answers.
C2_KnownAnswers ==
    pc = "done" =>
        /\ msg = <<>> => Join(digest) = "f96cea198ad1dd5617ac084a3d92c6107708c0ef"
        /\ msg = Abc => Join(digest) = "0164b8a914cd2a5e74c4f7ff082c4d97f1edf880"
        /\ msg = Fox => Join(digest) = "b03b401ba92d77666221e843feebf8c561cea5f7"

C2_Witness == pc = "done" /\ msg = Fox /\ Len(splits) = 1

\* C3: after new() and after every update, fewer than 64 bytes are pending.
C3_PendingBelowBlock ==
    pc = "open" => Len(data) < 64

\* an update has just completed a block exactly
C3_Witness ==
    pc = "open" /\ Len(msg) >= 64 /\ Len(msg) % 64 = 0 /\ data = <<>>

\* C4: the counter is 8 times the number of bytes passed to update, whatever
\* the chunking; it is 0 after new() and finalize does not change it.
C4_BitLength ==
    /\ length[1] = 0
    /\ length[2] = 0
    /\ length[3] * 65536 + length[4] = 8 * Len(msg)

C4_Witness ==
    pc = "done" /\ Len(splits) >= 2 /\ Len(msg) = 130 /\ length = <<0, 0, 0, 1040>>

\* C5: the padded buffer is the p pending bytes, 0x80, zeros up to 56 mod
\* 64, then the counter as 8 big-endian bytes; 64 bytes long when p <= 55
\* and 128 bytes long when 56 <= p <= 63.
C5_PaddingShape ==
    pc = "done" =>
        LET p == Len(msg) % 64
            n == Len(padded)
        IN  /\ n = (IF p <= 55 THEN 64 ELSE 128)
            /\ SubSeq(padded, 1, p) = SubSeq(msg, Len(msg) - p + 1, Len(msg))
            /\ padded[p + 1] = 128
            /\ \A i \in (p + 2)..(n - 8) : padded[i] = 0
            /\ (n - 8) % 64 = 56
            /\ \A j \in 1..4 :
                  padded[n - 8 + 2 * j - 1] * 256 + padded[n - 8 + 2 * j] = length[j]

\* the padding spills into a second block
C5_Witness ==
    pc = "done" /\ Len(msg) % 64 = 56 /\ Len(padded) = 128

HexChars == {"0", "1", "2", "3", "4", "5", "6", "7",
             "8", "9", "a", "b", "c", "d", "e", "f"}
HexVal(c) == CHOOSE v \in 0..15 : HexDigit[v + 1] = c

\* C6: the digest is 40 characters of 0-9a-f, the five words in order, each
\* as 8 digits, most significant first.
C6_DigestShape ==
    pc = "done" =>
        /\ Len(digest) = 40
        /\ \A i \in 1..Len(digest) : digest[i] \in HexChars
        /\ \A k \in 1..5 :
              LET d(j) == HexVal(digest[8 * (k - 1) + j])
              IN  /\ h[k][1] = d(1) * 4096 + d(2) * 256 + d(3) * 16 + d(4)
                  /\ h[k][2] = d(5) * 4096 + d(6) * 256 + d(7) * 16 + d(8)

\* a word whose leading digit is 0
C6_Witness ==
    pc = "done" /\ \E k \in 1..5 : h[k][1] < 4096

\* C7: update never fails; when the counter would leave the u64 range it
\* takes the wrapped value.
C7_UpdateNeverFails ==
    pc # "panicked"

\* the process_block calls are the successive 64-byte blocks of the input,
\* then those of the padded remainder, each starting from the words the
\* previous one left; the buffer is what has not been drained
BlocksInOrder ==
    LET nb == Len(msg) \div 64
    IN  /\ Len(calls) = nb + (IF pc = "done" THEN Len(padded) \div 64 ELSE 0)
        /\ \A k \in 1..Len(calls) :
              /\ calls[k].block =
                    IF k <= nb THEN SubSeq(msg, 64 * (k - 1) + 1, 64 * k)
                    ELSE SubSeq(padded, 64 * (k - nb - 1) + 1, 64 * (k - nb))
              /\ calls[k].pre = IF k = 1 THEN H0 ELSE calls[k - 1].post
        /\ h = IF calls = <<>> THEN H0 ELSE calls[Len(calls)].post
        /\ pc = "open" => data = SubSeq(msg, 64 * nb + 1, Len(msg))
        /\ pc = "done" => data = <<>>

\* a step changes the words only with a process_block call, and an update
\* whose input leaves the buffer short of a block (pending + input < 64)
\* does not change them
WordsChangeByBlocks ==
    /\ h' # h => Len(calls') > Len(calls)
    /\ (pc' = "open" /\ Len(data) + (Len(msg') - Len(msg)) < 64) => h' = h

RECURSIVE rotl32(_, _)
rotl32(x, n) ==
    IF n = 0 THEN x
    ELSE rotl32(<<((x[1] * 2) % 65536) + (x[2] \div 32768),
                  ((x[2] * 2) % 65536) + (x[1] \div 32768)>>, n - 1)

\* the sum of a sequence of words, mod 2^32
RECURSIVE SumHalves(_, _)
SumHalves(ws, i) == IF ws = <<>> THEN 0 ELSE Head(ws)[i] + SumHalves(Tail(ws), i)
AddMod32(ws) ==
    LET lo == SumHalves(ws, 2)
        hi == SumHalves(ws, 1) + (lo \div 65536)
    IN  <<hi % 65536, lo % 65536>>

\* w[0..n), 1-based: 16 big-endian words, then
\* w[t] = w[t-3] XOR w[t-8] XOR w[t-14] XOR w[t-16]
RECURSIVE SpecSchedule(_, _)
SpecSchedule(w, n) ==
    IF Len(w) >= n THEN w
    ELSE SpecSchedule(w \o <<BitXor(w[Len(w) + 1 - 3], BitXor(w[Len(w) + 1 - 8],
                             BitXor(w[Len(w) + 1 - 14], w[Len(w) + 1 - 16])))>>, n)
SpecWords(block) ==
    <<>> \o [i \in 1..16 |->
        <<block[4 * i - 3] * 256 + block[4 * i - 2],
          block[4 * i - 1] * 256 + block[4 * i]>>]

\* the table of f and K by round
SpecF(t, b, c, d) ==
    CASE t \in 0..19 -> BitOr(BitAnd(b, c), BitAnd(BitNot(b), d))
      [] t \in 20..39 -> BitXor(b, BitXor(c, d))
      [] t \in 40..59 -> BitOr(BitAnd(b, c), BitOr(BitAnd(b, d), BitAnd(c, d)))
      [] t \in 60..79 -> BitXor(b, BitXor(c, d))
SpecK(t) ==
    CASE t \in 0..19 -> <<23170, 31129>>      \* 0x5A827999
      [] t \in 20..39 -> <<28377, 60321>>     \* 0x6ED9EBA1
      [] t \in 40..59 -> <<36635, 48348>>     \* 0x8F1BBCDC
      [] t \in 60..79 -> <<51810, 49622>>     \* 0xCA62C1D6

\* rounds t < n from v = <<a, b, c, d, e, t>>, the registers before round t
RECURSIVE SpecRounds(_, _, _)
SpecRounds(v, w, n) ==
    IF v[6] >= n THEN v
    ELSE SpecRounds(<<AddMod32(<<rotl32(v[1], 5), SpecF(v[6], v[2], v[3], v[4]),
                                 v[5], SpecK(v[6]), w[v[6] + 1]>>),
                      v[1], rotl32(v[2], 30), v[3], v[4], v[6] + 1>>, w, n)

SpecCompress(s, block) ==
    LET w == SpecSchedule(SpecSchedule(SpecSchedule(SpecSchedule(
                 SpecWords(block), 32), 48), 64), 80)
        v == SpecRounds(SpecRounds(SpecRounds(SpecRounds(
                 <<s[1], s[2], s[3], s[4], s[5], 0>>, w, 20), w, 40), w, 60), w, 80)
    IN  <<AddMod32(<<s[1], v[1]>>), AddMod32(<<s[2], v[2]>>), AddMod32(<<s[3], v[3]>>),
          AddMod32(<<s[4], v[4]>>), AddMod32(<<s[5], v[5]>>)>>

\* C9: every process_block call leaves the words the specification's
\* compression function gives for the words before it and its block.
C9_CompressorCorrect ==
    \A k \in 1..Len(calls) :
        calls[k].post = SpecCompress(calls[k].pre, calls[k].block)

\* a call on a block of input and a call on a block of padding, from
\* different words
C9_Witness ==
    /\ pc = "done"
    /\ Len(calls) = 2
    /\ Len(msg) = 65
    /\ calls[2].pre # H0

\* C10: every block handed to process_block, by update and by finalize, is
\* 64 bytes long, so its assertion holds.
C10_BlockPrecondition ==
    \A k \in 1..Len(calls) : Len(calls[k].block) = 64

\* two updates that each complete a block, then finalize
C10_Witness ==
    pc = "done" /\ splits = <<64, 64>> /\ Len(calls) = 3

====
